---- MODULE Spec2Model ----
(***************************************************************************)
(* AuditAI: the audit-rule engine (runAuditRules) and the App component    *)
(* that drives it (handleAnalyze, reset, the file list).                   *)
(*                                                                         *)
(* Representation                                                          *)
(*  - a nullable / optional value is a sequence of length <= 1:            *)
(*    None = <<>> (null or undefined), Some(x) = <<x>>;                    *)
(*  - a string is a sequence of one-character strings, so that the         *)
(*    regular-expression replaces, split, substring and includes of the    *)
(*    source are computed character by character;                          *)
(*  - an ISO calendar date "YYYY-MM-DD" is a record [y, m, d];             *)
(*  - a monetary amount is an integer number of hundredths (0.01), so the  *)
(*    tolerance 0.05 is the integer 5; the comparison against the          *)
(*    tolerance follows the doubles of the source (see ValuesMatch);       *)
(*  - a quantity is an integer number of half-hundredths (0.005), so the   *)
(*    tolerance 0.01 is the integer 2;                                     *)
(*  - a finding keeps id, status, a tag for the details text chosen,       *)
(*    whether a recommendation is present, and the optional sub-items.     *)
(***************************************************************************)
EXTENDS Integers, Sequences, FiniteSets, TLC

VARIABLES
    files,          \* App state: number of files in the list (files.length)
    isAnalyzing,    \* App state
    extractedData,  \* App state: None or Some(bundle)
    auditResults,   \* App state: sequence of findings
    error,          \* App state: TRUE iff the error message is set
    call,           \* the handleAnalyze call in flight: "idle" or "awaiting"
    tz,             \* host time-zone offset in hours (environment of Date)
    arg,            \* argument of the most recent runAuditRules invocation
    ret,            \* its outcome: None (not invoked yet) or Some([threw, out])
    evaluations,    \* number of runAuditRules invocations so far
    last            \* how the most recent handleAnalyze call ended, or "reset"
                    \* once reset was invoked during the call in flight

vars == <<files, isAnalyzing, extractedData, auditResults, error, call, tz, arg, ret,
          evaluations, last>>

(***************************************************************************)
(* Bounds of the model.                                                    *)
(***************************************************************************)
MaxFiles == 2
MaxEvaluations == 2
MaxCnpjLen == 2
MaxValue == 14

(***************************************************************************)
(* Optional values and JavaScript truthiness.                              *)
(***************************************************************************)
None == <<>>
Some(x) == <<x>>
IsSome(o) == o # <<>>
Val(o) == o[1]

\* `if (s)` on string | null: neither null nor the empty string.
TruthyStr(o) == IsSome(o) /\ Len(Val(o)) > 0
\* `if (n)` on number | null: neither null nor 0.
TruthyNum(o) == IsSome(o) /\ Val(o) # 0

Abs(n) == IF n < 0 THEN -n ELSE n

(***************************************************************************)
(* Strings.                                                                *)
(***************************************************************************)
Digits == {"0", "1", "2", "3", "4", "5", "6", "7", "8", "9"}
LowerLetters == {"a", "b", "c", "d", "e", "n", "p", "r", "x"}
UpperLetters == {"A", "B", "C", "D", "E", "N", "P", "R", "X"}

ToLowerChar(c) ==
    CASE c = "A" -> "a" [] c = "B" -> "b" [] c = "C" -> "c" [] c = "D" -> "d"
      [] c = "E" -> "e" [] c = "N" -> "n" [] c = "P" -> "p" [] c = "R" -> "r"
      [] c = "X" -> "x" [] OTHER -> c

toLowerCase(s) == [i \in 1..Len(s) |-> ToLowerChar(s[i])]

IsDigit(c) == c \in Digits
IsAlnum(c) == c \in Digits \cup LowerLetters \cup UpperLetters

\* Mutant: identifiers compared as written.
StripNothing(s) == s

\* s.replace(/\D/g, '')
StripNonDigits(s) == SelectSeq(s, IsDigit)

\* s.substring(0, n)
substring0(s, n) == IF Len(s) <= n THEN s ELSE SubSeq(s, 1, n)

\* hay.includes(needle)
includes(hay, needle) ==
    \E i \in 0..(Len(hay) - Len(needle)) :
        \A j \in 1..Len(needle) : hay[i + j] = needle[j]

\* s.split(' '): the maximal pieces between spaces, empty pieces included.
RECURSIVE SplitFrom(_, _, _)
SplitFrom(s, i, cur) ==
    IF i > Len(s) THEN <<cur>>
    ELSE IF s[i] = " " THEN <<cur>> \o SplitFrom(s, i + 1, <<>>)
    ELSE SplitFrom(s, i + 1, Append(cur, s[i]))

split(s) == SplitFrom(s, 1, <<>>)

\* All strings over alphabet A of length <= n.
RECURSIVE StringsUpTo(_, _)
StringsUpTo(A, n) ==
    IF n = 0 THEN {<<>>}
    ELSE LET shorter == StringsUpTo(A, n - 1)
         IN  shorter \cup {Append(s, c) : s \in shorter, c \in A}

(***************************************************************************)
(* Dates.  new Date("YYYY-MM-DD") is midnight UTC of that day; comparing   *)
(* two Date objects compares their time values; getFullYear() reads the    *)
(* year in the host's local time zone.                                     *)
(***************************************************************************)
\* Time value of new Date(iso), in days: strictly increasing in (y, m, d).
DateValue(dt) == dt.y * 372 + (dt.m - 1) * 31 + dt.d

\* new Date(iso).getFullYear() on a host whose offset from UTC is `zone` hours:
\* west of UTC, midnight UTC still falls on the previous local day.
getFullYear(dt, zone) ==
    IF zone < 0 /\ dt.m = 1 /\ dt.d = 1 THEN dt.y - 1 ELSE dt.y

(***************************************************************************)
(* CheckStatus and findings.                                               *)
(***************************************************************************)
PENDING == "PENDING"
PASS == "PASS"
FAIL == "FAIL"
WARNING == "WARNING"

Finding(id, status, details, recommendation, subItems) ==
    [id |-> id, status |-> status, details |-> details,
     recommendation |-> recommendation, subItems |-> subItems]

\* A sub-item's label is [text, item]: the fixed text of a certificate, or the
\* <<part number or S/N, description prefix>> of an invoice group.  Its details
\* are a tuple: a tag for the text chosen, then the quantities it quotes.
SubItem(label, status, details) ==
    [label |-> label, status |-> status, details |-> details]

CertItemLabel(text) == [text |-> text, item |-> <<>>]

(***************************************************************************)
(* Outcome of a computation that may throw: [threw, out].  When it threw,  *)
(* out is what it had produced up to the exception (for runAuditRules: the *)
(* findings already pushed onto `results`, which the caller never sees).   *)
(***************************************************************************)
Ok(out) == [threw |-> FALSE, out |-> out]
Thrown == [threw |-> TRUE, out |-> <<>>]

(***************************************************************************)
(* Program constants of the rules.                                         *)
(***************************************************************************)
\* Math.abs(...) < 0.05, in hundredths
ValueTolerance == 5
\* Math.abs(...) < 0.01, in half-hundredths
QtyTolerance == 2
\* item.partNumber.length > 2
MinPartNumberLen == 2
\* normalize(item.description).substring(0, 30)
KeyDescriptionLen == 30
\* filter(w => w.length > 3)
MinTokenLen == 3
\* e.nd.includes('339039')
ServiceND == <<"3", "3", "9", "0", "3", "9">>

(***************************************************************************)
(* Rule 0: document validation.                                            *)
(***************************************************************************)
\* Mutant: the flag honoured only when a note was recognised.
DocumentValidationOnlyWhenFound(data) ==
    IF /\ data.informacaoAdministrativa.found
       /\ data.informacaoAdministrativa.wrongDocumentDetected
    THEN <<Finding("doc-validation-info-admin", FAIL, "wrong-document", TRUE, None)>>
    ELSE <<>>

DocumentValidation(data) ==
    IF data.informacaoAdministrativa.wrongDocumentDetected
    THEN <<Finding("doc-validation-info-admin", FAIL, "wrong-document", TRUE, None)>>
    ELSE <<>>

(***************************************************************************)
(* Rule 1: SICAF check.                                                    *)
(***************************************************************************)
CertKeys == <<"federal_pgfn", "fgts", "trabalhista", "estadual_distrital", "municipal">>

CertLabel(k) ==
    CASE k = "federal_pgfn" -> "Receita Federal e PGFN"
      [] k = "fgts" -> "FGTS"
      [] k = "trabalhista" -> "Trabalhista"
      [] k = "estadual_distrital" -> "Estadual/Distrital"
      [] k = "municipal" -> "Municipal"

\* Mutant: a certificate expiring on the signature day counted as expired.
CertDateValidStrict(certDate, signatureDate) ==
    DateValue(certDate) > DateValue(signatureDate)

\* certDate >= signatureDate
CertDateValid(certDate, signatureDate) ==
    DateValue(certDate) >= DateValue(signatureDate)

\* Mutant: without the else branch, a missing date keeps the initial values.
CertSubItemKeepsInitial(label, dateStr, signatureDate) ==
    IF IsSome(dateStr)
    THEN IF CertDateValid(Val(dateStr), signatureDate)
         THEN SubItem(CertItemLabel(label), PASS, <<"valid">>)
         ELSE SubItem(CertItemLabel(label), FAIL, <<"expired">>)
    ELSE SubItem(CertItemLabel(label), PENDING, <<"not-found">>)

\* The callback of certChecks.map: status starts PENDING and is overwritten.
CertSubItem(label, dateStr, signatureDate) ==
    IF IsSome(dateStr)
    THEN IF CertDateValid(Val(dateStr), signatureDate)
         THEN SubItem(CertItemLabel(label), PASS, <<"valid">>)
         ELSE SubItem(CertItemLabel(label), FAIL, <<"expired">>)
    ELSE SubItem(CertItemLabel(label), FAIL, <<"date-not-found">>)

\* Mutant: the receipt's found flag not consulted.
SicafPreconditionNoReceipt(data) ==
    /\ data.sicaf.found
    /\ IsSome(data.termoRecebimento.signatureDate)

SicafPrecondition(data) ==
    /\ data.sicaf.found
    /\ data.termoRecebimento.found
    /\ IsSome(data.termoRecebimento.signatureDate)

SicafSubItems(data) ==
    [i \in 1..Len(CertKeys) |->
        CertSubItem(CertLabel(CertKeys[i]),
                    data.sicaf.validityDates[CertKeys[i]],
                    Val(data.termoRecebimento.signatureDate))]

SicafHasFailures(subItems) ==
    \E i \in 1..Len(subItems) : subItems[i].status = FAIL

\* Mutant: the recommendation given whatever the outcome.
SicafCheckAlwaysRecommends(data) ==
    IF SicafPrecondition(data)
    THEN LET subItems == SicafSubItems(data)
             hasFailures == SicafHasFailures(subItems)
         IN  <<Finding("sicaf-detailed",
                       IF hasFailures THEN FAIL ELSE PASS,
                       IF hasFailures THEN "some-expired" ELSE "all-valid",
                       TRUE,
                       Some(subItems))>>
    ELSE <<Finding("sicaf-missing", WARNING, "cannot-cross-check", FALSE, None)>>

SicafCheck(data) ==
    IF SicafPrecondition(data)
    THEN LET subItems == SicafSubItems(data)
             hasFailures == SicafHasFailures(subItems)
         IN  <<Finding("sicaf-detailed",
                       IF hasFailures THEN FAIL ELSE PASS,
                       IF hasFailures THEN "some-expired" ELSE "all-valid",
                       hasFailures,
                       Some(subItems))>>
    ELSE <<Finding("sicaf-missing", WARNING, "cannot-cross-check", FALSE, None)>>

(***************************************************************************)
(* Rule 2: CNPJ consistency.                                               *)
(***************************************************************************)
\* The Set `cnpjs`: one add per truthy raw identifier, of its digits.
CnpjAdd(raw) == IF TruthyStr(raw) THEN {StripNonDigits(Val(raw))} ELSE {}

CnpjSet(data) ==
    CnpjAdd(data.notaFiscal.cnpj) \cup CnpjAdd(data.termoRecebimento.cnpj)
        \cup CnpjAdd(data.sicaf.cnpj)

\* Mutant: the second test not chained by `else`, so a divergence is reported
\* and then a consistent identifier as well.
CnpjConsistencyUnchained(data) ==
    LET cnpjs == CnpjSet(data)
    IN  (IF Cardinality(cnpjs) > 1
         THEN <<Finding("cnpj-match", FAIL, "divergence", TRUE, None)>>
         ELSE <<>>)
        \o (IF Cardinality(cnpjs) >= 1
            THEN <<Finding("cnpj-match", PASS, "consistent", FALSE, None)>>
            ELSE <<>>)

CnpjConsistency(data) ==
    LET cnpjs == CnpjSet(data)
    IN  IF Cardinality(cnpjs) > 1
        THEN <<Finding("cnpj-match", FAIL, "divergence", TRUE, None)>>
        ELSE IF Cardinality(cnpjs) = 1
        THEN <<Finding("cnpj-match", PASS, "consistent", FALSE, None)>>
        ELSE <<>>

(***************************************************************************)
(* Rule 3: Termo de Recebimento "definitivo".                              *)
(***************************************************************************)
\* Mutant: the acceptance looked at only when an invoice was recognised too.
TermoDefinitivoNeedsInvoice(data) ==
    IF data.termoRecebimento.found /\ data.notaFiscal.found
    THEN IF data.termoRecebimento.isDefinitive
         THEN <<Finding("tr-definitive", PASS, "definitive", FALSE, None)>>
         ELSE <<Finding("tr-definitive", FAIL, "not-definitive", TRUE, None)>>
    ELSE <<>>

TermoDefinitivo(data) ==
    IF data.termoRecebimento.found
    THEN IF data.termoRecebimento.isDefinitive
         THEN <<Finding("tr-definitive", PASS, "definitive", FALSE, None)>>
         ELSE <<Finding("tr-definitive", FAIL, "not-definitive", TRUE, None)>>
    ELSE <<>>

(***************************************************************************)
(* Rule 4: value check (gross vs liquid).                                  *)
(***************************************************************************)
\* Amounts exactly 0.05 apart whose difference, computed on IEEE-754 doubles as
\* JavaScript computes it, is below the double 0.05: 0.06 - 0.01 evaluates to
\* 0.049999999999999996.  Listed for the amounts 0.00 .. 0.40; every other pair
\* of such amounts exactly 0.05 apart evaluates to 0.05 or more (0.05 - 0 is
\* 0.05, 0.14 - 0.09 is 0.05000000000000002).
RoundsBelowTolerance ==
    {<<6, 1>>, <<9, 4>>, <<12, 7>>, <<15, 10>>, <<18, 13>>, <<19, 14>>, <<21, 16>>,
     <<22, 17>>, <<24, 19>>, <<25, 20>>, <<29, 24>>, <<30, 25>>, <<31, 26>>,
     <<32, 27>>, <<33, 28>>, <<35, 30>>, <<36, 31>>, <<37, 32>>, <<38, 33>>,
     <<39, 34>>}

\* Math.abs(a - b) < 0.05 on doubles, for amounts a, b in hundredths: pairs less
\* than 0.05 apart are below, pairs more than 0.05 apart are not, and a pair
\* exactly 0.05 apart is below iff the subtraction rounds below.
ValuesMatch(a, b) ==
    \/ Abs(a - b) < ValueTolerance
    \/ /\ Abs(a - b) = ValueTolerance
       /\ (<<a, b>> \in RoundsBelowTolerance \/ <<b, a>> \in RoundsBelowTolerance)

\* Amounts exactly 0.05 apart whose difference on doubles is above the double
\* 0.05 (0.14 - 0.09 evaluates to 0.05000000000000002), for the amounts
\* 0.00 .. 0.40; the remaining pairs exactly 0.05 apart evaluate to 0.05 itself.
RoundsAboveTolerance ==
    {<<14, 9>>, <<17, 12>>, <<20, 15>>, <<23, 18>>, <<26, 21>>, <<27, 22>>,
     <<28, 23>>, <<34, 29>>, <<40, 35>>}

\* Math.abs(a - b) > 0.05 on doubles, for amounts a, b in hundredths.
ValuesDiverge(a, b) ==
    \/ Abs(a - b) > ValueTolerance
    \/ /\ Abs(a - b) = ValueTolerance
       /\ (<<a, b>> \in RoundsAboveTolerance \/ <<b, a>> \in RoundsAboveTolerance)

ValueCheckPrecondition(data) ==
    /\ data.notaFiscal.found
    /\ data.termoRecebimento.found
    /\ IsSome(data.notaFiscal.grossValue)
    /\ IsSome(data.termoRecebimento.totalValue)

ValueCheckStatus(nfGross, nfLiquid, trTotal) ==
    IF ValuesMatch(nfGross, trTotal) THEN PASS
    ELSE IF IsSome(nfLiquid) /\ ValuesMatch(Val(nfLiquid), trTotal) THEN FAIL
    ELSE WARNING

ValueCheck(data) ==
    IF ValueCheckPrecondition(data)
    THEN LET status == ValueCheckStatus(Val(data.notaFiscal.grossValue),
                                        data.notaFiscal.liquidValue,
                                        Val(data.termoRecebimento.totalValue))
         IN  <<Finding("value-check-gross", status,
                       CASE status = PASS -> "gross-matches"
                         [] status = FAIL -> "liquid-used"
                         [] OTHER -> "divergence",
                       status # PASS, None)>>
    ELSE <<>>

(***************************************************************************)
(* Rule 5: contract year.                                                  *)
(***************************************************************************)
ContractYearPrecondition(data) ==
    /\ data.termoRecebimento.found
    /\ IsSome(data.termoRecebimento.bulletinDate)
    /\ TruthyNum(data.termoRecebimento.contractStartYear)

ContractYear(data, zone) ==
    IF ContractYearPrecondition(data)
    THEN LET bulletinYear == getFullYear(Val(data.termoRecebimento.bulletinDate), zone)
         IN  IF bulletinYear < Val(data.termoRecebimento.contractStartYear)
             THEN <<Finding("contract-date", FAIL, "bulletin-before-contract", TRUE, None)>>
             ELSE <<>>
    ELSE <<>>

(***************************************************************************)
(* Rule 6: RMM / stock entry, with aggregation and item matching.          *)
(***************************************************************************)
\* normalize: str ? str.replace(/[^a-zA-Z0-9]/g, '').toLowerCase() : ''
normalize(str) ==
    IF TruthyStr(str) THEN toLowerCase(SelectSeq(Val(str), IsAlnum)) ELSE <<>>

\* The aggregation key of one line item.
ItemKey(item) ==
    IF TruthyStr(item.partNumber) /\ Len(Val(item.partNumber)) > MinPartNumberLen
    THEN normalize(item.partNumber)
    ELSE substring0(normalize(item.description), KeyDescriptionLen)

\* Position of `key` in the map (a sequence of entries in insertion order), or 0.
MapIndex(map, key) ==
    IF \E i \in 1..Len(map) : map[i].key = key
    THEN CHOOSE i \in 1..Len(map) : map[i].key = key
    ELSE 0

\* One iteration of items.forEach, for an item whose description is a string.
AggregateStep(map, item) ==
    LET key == ItemKey(item)
        withKey == IF MapIndex(map, key) = 0
                   THEN Append(map, [key |-> key, totalQty |-> 0,
                                     description |-> Val(item.description),
                                     partNumber |-> item.partNumber,
                                     originalCount |-> 0])
                   ELSE map
        i == MapIndex(withKey, key)
    IN  [withKey EXCEPT ![i] =
            [@ EXCEPT !.totalQty = @ + item.quantity,
                      !.originalCount = @ + 1,
                      !.description = IF Len(Val(item.description)) > Len(@)
                                      THEN Val(item.description) ELSE @]]

RECURSIVE AggregateFrom(_, _, _)
AggregateFrom(items, i, map) ==
    IF i > Len(items) THEN map
    ELSE AggregateFrom(items, i + 1, AggregateStep(map, items[i]))

\* item.description.length throws a TypeError when the description is null.
AggregateThrows(items) ==
    \E i \in 1..Len(items) : ~IsSome(items[i].description)

\* aggregateItems: the Map as a sequence of entries in insertion order.
aggregateItems(items) ==
    IF AggregateThrows(items) THEN Thrown ELSE Ok(AggregateFrom(items, 1, <<>>))

\* nfItem.description.toLowerCase().split(' ').filter(w => w.length > 3)
DescTokens(description) ==
    SelectSeq(split(toLowerCase(description)), LAMBDA w : Len(w) > MinTokenLen)

IsFuzzyMatch(tokens, rItem) ==
    \E t \in 1..Len(tokens) : includes(toLowerCase(rItem.description), tokens[t])

\* The first entry of rmmMap whose description contains a token, or None.
FuzzyMatch(nfItem, rmmMap) ==
    LET tokens == DescTokens(nfItem.description)
        hits == {i \in 1..Len(rmmMap) : IsFuzzyMatch(tokens, rmmMap[i])}
    IN  IF hits = {} THEN None
        ELSE Some(rmmMap[CHOOSE i \in hits : \A j \in hits : i <= j])

\* Mutant: the description match tried before the key lookup.
FindRmmMatchFuzzyFirst(nfItem, rmmMap) ==
    LET i == MapIndex(rmmMap, nfItem.key)
        fuzzy == IF TruthyStr(nfItem.partNumber) THEN FuzzyMatch(nfItem, rmmMap)
                 ELSE None
    IN  IF IsSome(fuzzy) THEN fuzzy
        ELSE IF i # 0 THEN Some(rmmMap[i])
        ELSE None

\* Mutant: the fallback tried for groups without a part number too.
FindRmmMatchAlwaysFuzzy(nfItem, rmmMap) ==
    LET i == MapIndex(rmmMap, nfItem.key)
    IN  IF i # 0 THEN Some(rmmMap[i]) ELSE FuzzyMatch(nfItem, rmmMap)

\* rmmMap.get(key), then the fuzzy fallback when the group has a part number.
FindRmmMatch(nfItem, rmmMap) ==
    LET i == MapIndex(rmmMap, nfItem.key)
    IN  IF i # 0 THEN Some(rmmMap[i])
        ELSE IF TruthyStr(nfItem.partNumber) THEN FuzzyMatch(nfItem, rmmMap)
        ELSE None

ItemLabel(nfItem) ==
    [text |-> "",
     item |-> <<IF TruthyStr(nfItem.partNumber) THEN Val(nfItem.partNumber)
                ELSE <<"S", "/", "N">>,
                substring0(nfItem.description, KeyDescriptionLen)>>]

\* Math.abs(rmmMatch.totalQty - nfItem.totalQty) < 0.01
QtyMatch(rmmQty, nfQty) == Abs(rmmQty - nfQty) < QtyTolerance

\* The sub-item pushed for one invoice group.
MatchSubItem(nfItem, rmmMap) ==
    LET rmmMatch == FindRmmMatch(nfItem, rmmMap)
    IN  IF IsSome(rmmMatch)
        THEN IF QtyMatch(Val(rmmMatch).totalQty, nfItem.totalQty)
             THEN SubItem(ItemLabel(nfItem), PASS,
                          <<"qty-equal", nfItem.totalQty, Val(rmmMatch).totalQty>>)
             ELSE SubItem(ItemLabel(nfItem), WARNING,
                          <<"qty-diverge", nfItem.totalQty, Val(rmmMatch).totalQty>>)
        ELSE SubItem(ItemLabel(nfItem), FAIL, <<"not-found">>)

\* The reassignment of matchStatus after one group's sub-item.
NextMatchStatus(matchStatus, subStatus) ==
    CASE subStatus = FAIL -> FAIL
      [] subStatus = WARNING -> IF matchStatus # FAIL THEN WARNING ELSE matchStatus
      [] OTHER -> matchStatus

RECURSIVE MatchLoop(_, _, _, _, _)
MatchLoop(nfMap, rmmMap, i, matchStatus, subItemsResults) ==
    IF i > Len(nfMap)
    THEN [status |-> matchStatus, subItems |-> subItemsResults]
    ELSE LET sub == MatchSubItem(nfMap[i], rmmMap)
         IN  MatchLoop(nfMap, rmmMap, i + 1,
                       NextMatchStatus(matchStatus, sub.status),
                       Append(subItemsResults, sub))

RmmDetailsTag(matchStatus) ==
    CASE matchStatus = FAIL -> "items-missing"
      [] matchStatus = WARNING -> "qty-divergence"
      [] OTHER -> "all-items-checked"

\* Mutant: the length of the list not looked at.
HasNfItemsListPresent(data) == IsSome(data.notaFiscal.items)

\* data.notaFiscal.items && data.notaFiscal.items.length > 0
HasNfItems(data) ==
    IsSome(data.notaFiscal.items) /\ Len(Val(data.notaFiscal.items)) > 0

\* data.rmm.items || []
RmmItemsOrEmpty(data) ==
    IF IsSome(data.rmm.items) THEN Val(data.rmm.items) ELSE <<>>

\* The hasRmm branch.
RmmDetailed(data) ==
    IF HasNfItems(data)
    THEN LET nfAgg == aggregateItems(Val(data.notaFiscal.items))
             rmmAgg == aggregateItems(RmmItemsOrEmpty(data))
         IN  IF nfAgg.threw \/ rmmAgg.threw THEN Thrown
             ELSE LET m == MatchLoop(nfAgg.out, rmmAgg.out, 1, PASS, <<>>)
                  IN  Ok(<<Finding("rmm-check-detailed", m.status,
                                   RmmDetailsTag(m.status), FALSE,
                                   IF Len(m.subItems) > 0 THEN Some(m.subItems)
                                   ELSE None)>>)
    ELSE Ok(<<Finding("rmm-check-detailed", WARNING, "no-nf-items", FALSE, None)>>)

\* Mutant: the note accepted without looking at wrongDocumentDetected.
hasJustificationNoRecheck(data) ==
    /\ data.informacaoAdministrativa.found
    /\ data.informacaoAdministrativa.substitutesRmm

hasJustification(data) ==
    /\ data.informacaoAdministrativa.found
    /\ data.informacaoAdministrativa.substitutesRmm
    /\ ~data.informacaoAdministrativa.wrongDocumentDetected

RmmCheck(data) ==
    IF data.notaFiscal.found
    THEN IF data.notaFiscal.isMaterial
         THEN IF data.rmm.found THEN RmmDetailed(data)
              ELSE IF hasJustification(data)
              THEN Ok(<<Finding("rmm-check", PASS, "justified", FALSE, None)>>)
              ELSE Ok(<<Finding("rmm-check", FAIL, "no-rmm-no-justification", TRUE, None)>>)
         ELSE IF data.notaFiscal.isService /\ ~data.notaFiscal.isMaterial
         THEN Ok(<<Finding("rmm-check", PASS, "service", FALSE, None)>>)
         ELSE Ok(<<>>)
    ELSE Ok(<<>>)

(***************************************************************************)
(* Rule 7: ND consistency (service vs material).                           *)
(***************************************************************************)
\* data.relatorioFatura.empenhos.length throws when the list is missing.
NdThrows(data) ==
    data.relatorioFatura.found /\ ~IsSome(data.relatorioFatura.empenhos)

\* empenhos.filter(e => e.nd.includes('339039'))
serviceNDs(empenhos) ==
    SelectSeq(empenhos, LAMBDA e : includes(e.nd, ServiceND))

NdStatus(data) ==
    IF /\ data.informacaoAdministrativa.found
       /\ data.informacaoAdministrativa.justifiesServiceND
       /\ ~data.informacaoAdministrativa.wrongDocumentDetected
    THEN <<PASS, "justified">>
    ELSE IF /\ data.informacaoAdministrativa.found
            /\ ~data.informacaoAdministrativa.wrongDocumentDetected
    THEN <<PASS, "presumed-justified">>
    ELSE <<WARNING, "unjustified">>

NdConsistency(data) ==
    IF NdThrows(data) THEN Thrown
    ELSE IF data.relatorioFatura.found /\ Len(Val(data.relatorioFatura.empenhos)) > 0
    THEN IF /\ Len(serviceNDs(Val(data.relatorioFatura.empenhos))) > 0
            /\ data.notaFiscal.isMaterial
         THEN Ok(<<Finding("nd-consistency", NdStatus(data)[1], NdStatus(data)[2],
                           NdStatus(data)[1] # PASS, None)>>)
         ELSE Ok(<<>>)
    ELSE Ok(<<>>)

(***************************************************************************)
(* runAuditRules: the rules push their findings onto `results` in source   *)
(* order; an exception in rule 6 or 7 ends the function without a return   *)
(* value, after the pushes of the rules before it.                         *)
(***************************************************************************)
\* Mutant: the receipt rule pushed before the identifier rule.
RuleOrderSwapped(r0, r1, r2, r3, r4, r5, r6, r7) ==
    r0 \o r1 \o r3 \o r2 \o r4 \o r5 \o r6 \o r7

RuleOrder(r0, r1, r2, r3, r4, r5, r6, r7) ==
    r0 \o r1 \o r2 \o r3 \o r4 \o r5 \o r6 \o r7

runAuditRules(data, zone) ==
    LET r0 == DocumentValidation(data)
        r1 == SicafCheck(data)
        r2 == CnpjConsistency(data)
        r3 == TermoDefinitivo(data)
        r4 == ValueCheck(data)
        r5 == ContractYear(data, zone)
        r6 == RmmCheck(data)
        r7 == NdConsistency(data)
    IN  IF r6.threw
        THEN [threw |-> TRUE, out |-> RuleOrder(r0, r1, r2, r3, r4, r5, <<>>, <<>>)]
        ELSE IF r7.threw
        THEN [threw |-> TRUE, out |-> RuleOrder(r0, r1, r2, r3, r4, r5, r6.out, <<>>)]
        ELSE Ok(RuleOrder(r0, r1, r2, r3, r4, r5, r6.out, r7.out))

(***************************************************************************)
(* handleAnalyze: the CNPJ failsafe applied to the extractor's bundle.     *)
(***************************************************************************)
\* possibleCnpjs.find(c => c.replace(/\D/g, '') === trCnpj): None when not found.
FindCnpj(possibleCnpjs, trCnpj) ==
    LET hits == {i \in 1..Len(possibleCnpjs) : StripNonDigits(possibleCnpjs[i]) = trCnpj}
    IN  IF hits = {} THEN None
        ELSE Some(possibleCnpjs[CHOOSE i \in hits : \A j \in hits : i <= j])

\* Mutant: the candidate compared with the invoice's identifier instead of the
\* receipt's (find(c => c.replace(/\D/g, '') !== currentNfCnpj)).
CnpjFailsafeWrongOperand(data) ==
    IF /\ data.termoRecebimento.found
       /\ TruthyStr(data.termoRecebimento.cnpj)
       /\ data.notaFiscal.found
    THEN LET trCnpj == StripNonDigits(Val(data.termoRecebimento.cnpj))
             currentNfCnpj == IF TruthyStr(data.notaFiscal.cnpj)
                              THEN StripNonDigits(Val(data.notaFiscal.cnpj))
                              ELSE <<>>
             possible == IF IsSome(data.notaFiscal.possibleCnpjs)
                         THEN Val(data.notaFiscal.possibleCnpjs) ELSE <<>>
             hits == {i \in 1..Len(possible) :
                         StripNonDigits(possible[i]) # currentNfCnpj}
         IN  IF trCnpj # currentNfCnpj /\ hits # {}
             THEN LET match == possible[CHOOSE i \in hits : \A j \in hits : i <= j]
                  IN  IF Len(match) > 0
                      THEN [data EXCEPT !.notaFiscal.cnpj = Some(match)]
                      ELSE data
             ELSE data
    ELSE data

CnpjFailsafe(data) ==
    IF /\ data.termoRecebimento.found
       /\ TruthyStr(data.termoRecebimento.cnpj)
       /\ data.notaFiscal.found
    THEN LET trCnpj == StripNonDigits(Val(data.termoRecebimento.cnpj))
             currentNfCnpj == IF TruthyStr(data.notaFiscal.cnpj)
                              THEN StripNonDigits(Val(data.notaFiscal.cnpj))
                              ELSE <<>>
         IN  IF /\ trCnpj # currentNfCnpj
                /\ IsSome(data.notaFiscal.possibleCnpjs)
                /\ Len(Val(data.notaFiscal.possibleCnpjs)) > 0
             THEN LET match == FindCnpj(Val(data.notaFiscal.possibleCnpjs), trCnpj)
                  IN  IF TruthyStr(match)
                      THEN [data EXCEPT !.notaFiscal.cnpj = match]
                      ELSE data
             ELSE data
    ELSE data

(***************************************************************************)
(* Bundles.                                                                *)
(***************************************************************************)
NoDates == [k \in {CertKeys[i] : i \in 1..Len(CertKeys)} |-> None]

Sicaf(found, cnpj, validityDates) ==
    [found |-> found, cnpj |-> cnpj, validityDates |-> validityDates]

Termo(found, cnpj, signatureDate, isDefinitive, bulletinDate, contractStartYear, totalValue) ==
    [found |-> found, cnpj |-> cnpj, signatureDate |-> signatureDate,
     isDefinitive |-> isDefinitive, bulletinDate |-> bulletinDate,
     contractStartYear |-> contractStartYear, totalValue |-> totalValue]

Nota(found, cnpj, possibleCnpjs, grossValue, liquidValue, isMaterial, isService, items) ==
    [found |-> found, cnpj |-> cnpj, possibleCnpjs |-> possibleCnpjs,
     grossValue |-> grossValue, liquidValue |-> liquidValue,
     isMaterial |-> isMaterial, isService |-> isService, items |-> items]

Fatura(found, totalValue, empenhos) ==
    [found |-> found, totalValue |-> totalValue, empenhos |-> empenhos]

Rmm(found, items) == [found |-> found, items |-> items]

InfoAdmin(found, substitutesRmm, justifiesServiceND, wrongDocumentDetected) ==
    [found |-> found, substitutesRmm |-> substitutesRmm,
     justifiesServiceND |-> justifiesServiceND,
     wrongDocumentDetected |-> wrongDocumentDetected]

Bundle(sicaf, termoRecebimento, notaFiscal, relatorioFatura, rmm, informacaoAdministrativa) ==
    [sicaf |-> sicaf, termoRecebimento |-> termoRecebimento,
     notaFiscal |-> notaFiscal, relatorioFatura |-> relatorioFatura,
     rmm |-> rmm, informacaoAdministrativa |-> informacaoAdministrativa]

Empenho(nd) == [nd |-> nd]
LineItem(description, partNumber, quantity) ==
    [description |-> description, partNumber |-> partNumber, quantity |-> quantity]

\* The bundle of an upload in which no document was recognised.
EmptyBundle ==
    Bundle(Sicaf(FALSE, None, NoDates),
           Termo(FALSE, None, None, FALSE, None, None, None),
           Nota(FALSE, None, Some(<<>>), None, None, FALSE, FALSE, Some(<<>>)),
           Fatura(FALSE, None, Some(<<>>)),
           Rmm(FALSE, Some(<<>>)),
           InfoAdmin(FALSE, FALSE, FALSE, FALSE))

\* Hosts: America/Sao_Paulo (UTC-3) and UTC.
TimeZones == {-3, 0}

Date(y, m, d) == [y |-> y, m |-> m, d |-> d]

(***************************************************************************)
(* The App component.                                                      *)
(***************************************************************************)
\* {auditResults.length === 0 && !extractedData && ( upload section )}
UploadViewVisible == Len(auditResults) = 0 /\ ~IsSome(extractedData)

\* What analyzeDocuments can resolve to in the App specification.
AppCnpjs == {Some(<<"1">>), Some(<<"2", ".">>)}

\* No invoice recognised, or a material invoice whose two items form one group,
\* with the stock entry that lists it.
AppItems(material) ==
    IF material
    THEN <<LineItem(Some(<<"p", "a", "r", "a">>), Some(<<"P", "N", "1">>), 200),
           LineItem(Some(<<"p", "a", "r", "a", " ", "x">>), Some(<<"P", "N", "1">>), 400)>>
    ELSE <<>>

AppBundles ==
    { Bundle(Sicaf(FALSE, None, NoDates),
             Termo(TRUE, Some(<<"2">>), None, TRUE, None, None, Some(15)),
             Nota(material, nfCnpj, possible, Some(10), None, material, TRUE,
                  Some(AppItems(material))),
             Fatura(TRUE, None, empenhos),
             Rmm(material, Some(AppItems(material))),
             InfoAdmin(FALSE, FALSE, FALSE, FALSE)) :
        material \in BOOLEAN, nfCnpj \in AppCnpjs,
        possible \in {Some(<<>>), Some(<<<<"1">>, <<"2">>>>)},
        empenhos \in {None, Some(<<>>)} }

\* Why analyzeDocuments can fail: the request rejects, response.text is empty,
\* or JSON.parse throws on it.
FailureReasons == {"rejected", "empty", "unparsable"}

Init ==
    /\ files = 0
    /\ isAnalyzing = FALSE
    /\ extractedData = None
    /\ auditResults = <<>>
    /\ error = FALSE
    /\ call = "idle"
    /\ tz \in TimeZones
    /\ arg = EmptyBundle
    /\ ret = None
    /\ evaluations = 0
    /\ last = "none"

\* handleFilesSelected, reached through the file input or a drop.
HandleFilesSelected ==
    /\ UploadViewVisible
    /\ ~isAnalyzing
    /\ \E n \in 1..MaxFiles :
        /\ files + n <= MaxFiles
        /\ files' = files + n
    /\ error' = FALSE
    /\ UNCHANGED <<isAnalyzing, extractedData, auditResults, call, tz, arg, ret,
                   evaluations, last>>

RemoveFile ==
    /\ UploadViewVisible
    /\ files > 0
    /\ files' = files - 1
    /\ UNCHANGED <<isAnalyzing, extractedData, auditResults, error, call, tz, arg, ret,
                   evaluations, last>>

\* The "Limpar" button: setFiles([])
ClearFiles ==
    /\ UploadViewVisible
    /\ files > 0
    /\ files' = 0
    /\ UNCHANGED <<isAnalyzing, extractedData, auditResults, error, call, tz, arg, ret,
                   evaluations, last>>

\* handleAnalyze up to its await; the button is disabled while analyzing or
\* without files and is rendered in the upload section only.
HandleAnalyze ==
    /\ UploadViewVisible
    /\ ~isAnalyzing
    /\ files > 0
    /\ evaluations < MaxEvaluations
    /\ isAnalyzing' = TRUE
    /\ auditResults' = <<>>
    /\ error' = FALSE
    /\ call' = "awaiting"
    /\ UNCHANGED <<files, extractedData, tz, arg, ret, evaluations, last>>

\* Mutant: the rules evaluated on the bundle as extracted, the failsafe after them.
AnalyzeResolvedRulesFirst(raw) ==
    LET r == runAuditRules(raw, tz)
    IN  /\ extractedData' = Some(CnpjFailsafe(raw))
        /\ arg' = raw
        /\ ret' = Some(r)
        /\ evaluations' = evaluations + 1
        /\ IF r.threw
           THEN /\ error' = TRUE
                /\ auditResults' = auditResults
                /\ last' = "threw"
           ELSE /\ error' = error
                /\ auditResults' = r.out
                /\ last' = "resolved"
        /\ isAnalyzing' = FALSE

\* Mutant: setIsAnalyzing(false) as the last statement of the try block instead
\* of a finally block, so an exception in the rules skips it.
AnalyzeResolvedNoFinally(raw) ==
    LET data == CnpjFailsafe(raw)
        r == runAuditRules(data, tz)
    IN  /\ extractedData' = Some(data)
        /\ arg' = raw
        /\ ret' = Some(r)
        /\ evaluations' = evaluations + 1
        /\ IF r.threw
           THEN /\ error' = TRUE
                /\ auditResults' = auditResults
                /\ last' = "threw"
                /\ isAnalyzing' = isAnalyzing
           ELSE /\ error' = error
                /\ auditResults' = r.out
                /\ last' = "resolved"
                /\ isAnalyzing' = FALSE

\* What follows `await analyzeDocuments` when it resolves to `raw`; arg records
\* the bundle as analyzeDocuments returned it.
AnalyzeResolved(raw) ==
    LET data == CnpjFailsafe(raw)
        r == runAuditRules(data, tz)
    IN  /\ extractedData' = Some(data)
        /\ arg' = raw
        /\ ret' = Some(r)
        /\ evaluations' = evaluations + 1
        /\ IF r.threw
           THEN /\ error' = TRUE
                /\ auditResults' = auditResults
                /\ last' = "threw"
           ELSE /\ error' = error
                /\ auditResults' = r.out
                /\ last' = "resolved"
        /\ isAnalyzing' = FALSE

\* Mutant: the catch block shows partial data instead of the error.
AnalyzeRejectedPartial(reason) ==
    /\ error' = error
    /\ extractedData' = Some(EmptyBundle)
    /\ isAnalyzing' = FALSE
    /\ last' = reason
    /\ UNCHANGED <<auditResults, arg, ret, evaluations>>

\* What follows `await analyzeDocuments` when it rejects: catch, then finally.
AnalyzeRejected(reason) ==
    /\ error' = TRUE
    /\ isAnalyzing' = FALSE
    /\ last' = reason
    /\ UNCHANGED <<extractedData, auditResults, arg, ret, evaluations>>

ExtractorResolves ==
    /\ call = "awaiting"
    /\ call' = "idle"
    /\ \E raw \in AppBundles : AnalyzeResolved(raw)
    /\ UNCHANGED <<files, tz>>

ExtractorRejects ==
    /\ call = "awaiting"
    /\ call' = "idle"
    /\ \E reason \in FailureReasons : AnalyzeRejected(reason)
    /\ UNCHANGED <<files, tz>>

\* analyzeDocuments resolves to a value that lacks a record the failsafe reads
\* (the parsed response is not checked against ExtractedData): the failsafe's
\* first read throws, before setExtractedData; catch, then finally.
ExtractorResolvesMalformed ==
    /\ call = "awaiting"
    /\ call' = "idle"
    /\ error' = TRUE
    /\ isAnalyzing' = FALSE
    /\ last' = "prepass-threw"
    /\ UNCHANGED <<files, extractedData, auditResults, tz, arg, ret, evaluations>>

\* The promise of analyzeDocuments settles and the rest of handleAnalyze runs.
ExtractorSettles ==
    ExtractorResolves \/ ExtractorRejects \/ ExtractorResolvesMalformed

\* reset, bound to the header button and to the button below the results,
\* available in every view and at any time.
Reset ==
    /\ files' = 0
    /\ extractedData' = None
    /\ auditResults' = <<>>
    /\ error' = FALSE
    /\ last' = IF call = "awaiting" THEN "reset" ELSE last
    /\ UNCHANGED <<isAnalyzing, call, tz, arg, ret, evaluations>>

Next ==
    \/ HandleFilesSelected
    \/ RemoveFile
    \/ ClearFiles
    \/ HandleAnalyze
    \/ ExtractorResolves
    \/ ExtractorRejects
    \/ ExtractorResolvesMalformed
    \/ Reset

Spec == Init /\ [][Next]_vars

(***************************************************************************)
(* The sidebar's useMemo, evaluated at every render from extractedData.    *)
(* Its outcome is [threw, out] with out the flag isTrMismatch; the second  *)
(* flag, isEmpenhosMismatch, is modelled only as far as its reads of the   *)
(* commitments list can throw (empenhos.reduce, empenhos.length).          *)
(***************************************************************************)
isTrMismatch(extracted) ==
    IF ~IsSome(extracted) \/ ~TruthyNum(Val(extracted).notaFiscal.grossValue)
    THEN Ok(FALSE)
    ELSE LET nfVal == Val(Val(extracted).notaFiscal.grossValue)
             trVal == Val(extracted).termoRecebimento.totalValue
             rf == Val(extracted).relatorioFatura
         IN  IF ~IsSome(rf.totalValue) /\ ~IsSome(rf.empenhos)
             THEN Thrown
             ELSE Ok(IsSome(trVal) /\ ValuesDiverge(nfVal, Val(trVal)))

\* The extractor's promise settles in the end, and the continuation of
\* handleAnalyze then runs to its finally block.
SpecLive == Init /\ [][Next]_vars /\ WF_vars(ExtractorSettles)

(***************************************************************************)
(* runAuditRules on its own: the initial state draws the bundle and the    *)
(* host, the one action applies the function.                              *)
(***************************************************************************)
InitRules(bundles, zones) ==
    /\ files = 0
    /\ isAnalyzing = FALSE
    /\ extractedData = None
    /\ auditResults = <<>>
    /\ error = FALSE
    /\ call = "idle"
    /\ tz \in zones
    /\ arg \in bundles
    /\ ret = None
    /\ evaluations = 0
    /\ last = "none"

Evaluate ==
    /\ ret = None
    /\ ret' = Some(runAuditRules(arg, tz))
    /\ evaluations' = evaluations + 1
    /\ UNCHANGED <<files, isAnalyzing, extractedData, auditResults, error, call, tz,
                   arg, last>>

NextRules == Evaluate

\* The invocation recorded in arg / ret: whether it ran, whether it returned,
\* and the findings it pushed.
Evaluated == IsSome(ret)
Returned == IsSome(ret) /\ ~Val(ret).threw
Results == Val(ret).out
Ids == [i \in 1..Len(Results) |-> Results[i].id]
HasId(id) == \E i \in 1..Len(Results) : Results[i].id = id
CountId(id) == Cardinality({i \in 1..Len(Results) : Results[i].id = id})
FindingOf(id) == Results[CHOOSE i \in 1..Len(Results) : Results[i].id = id]

(***************************************************************************)
(* Input sets of the runAuditRules specifications.                         *)
(***************************************************************************)
D1 == Date(2023, 12, 31)
D2 == Date(2024, 1, 1)
D3 == Date(2024, 6, 15)

GoodItem == LineItem(Some(<<"p", "a", "r", "a">>), Some(<<"P", "N", "1">>), 20)
NullDescItem == LineItem(None, Some(<<"P", "N", "1">>), 20)

\* Every rule switched on and off by the presence flags and one field each.
\* kinds of stock entry: none; found with matching items; found while the
\* invoice has no items; found while an invoice item has a null description.
RmmKinds == {"none", "items", "no-nf-items", "null-description"}
\* kinds of billing report: none; found without a commitments list; found
\* with a service commitment; found with a material commitment.
FaturaKinds == {"none", "no-list", "service", "material"}

FlagFatura(kind) ==
    CASE kind = "none" -> Fatura(FALSE, None, Some(<<>>))
      [] kind = "no-list" -> Fatura(TRUE, None, None)
      [] kind = "service" -> Fatura(TRUE, None, Some(<<Empenho(ServiceND)>>))
      [] kind = "material" ->
            Fatura(TRUE, None, Some(<<Empenho(<<"3", "3", "9", "0", "3", "0">>)>>))

FlagNfItems(kind) ==
    CASE kind = "no-nf-items" -> Some(<<>>)
      [] kind = "null-description" -> Some(<<GoodItem, NullDescItem>>)
      [] OTHER -> Some(<<GoodItem>>)

FlagBundles ==
    { Bundle(Sicaf(sicafFound, None, [NoDates EXCEPT !["fgts"] = Some(D3)]),
             Termo(trFound, IF hasCnpj THEN Some(<<"1">>) ELSE None,
                   Some(D2), trFound, IF hasContract THEN Some(D1) ELSE None,
                   Some(2024), IF hasValues THEN Some(10) ELSE None),
             Nota(nfFound, None, Some(<<>>), Some(10), None,
                  isMaterial, isService, FlagNfItems(rmmKind)),
             FlagFatura(faturaKind),
             Rmm(rmmKind # "none", Some(<<GoodItem>>)),
             InfoAdmin(iaFound, substitutesRmm, FALSE, wrongDoc)) :
        sicafFound \in BOOLEAN, trFound \in BOOLEAN, hasCnpj \in BOOLEAN,
        hasContract \in BOOLEAN, hasValues \in BOOLEAN,
        nfFound \in BOOLEAN, isMaterial \in BOOLEAN, isService \in BOOLEAN,
        rmmKind \in RmmKinds, faturaKind \in FaturaKinds,
        iaFound \in BOOLEAN, substitutesRmm \in BOOLEAN, wrongDoc \in BOOLEAN }

SpecFlags == InitRules(FlagBundles, {0}) /\ [][NextRules]_vars

(***************************************************************************)
(* Claims about the order of the findings and about exceptions.            *)
(***************************************************************************)
\* Position of a finding id in the documented emission order.
RuleRank(id) ==
    CASE id = "doc-validation-info-admin" -> 1
      [] id \in {"sicaf-detailed", "sicaf-missing"} -> 2
      [] id = "cnpj-match" -> 3
      [] id = "tr-definitive" -> 4
      [] id = "value-check-gross" -> 5
      [] id = "contract-date" -> 6
      [] id \in {"rmm-check-detailed", "rmm-check"} -> 7
      [] id = "nd-consistency" -> 8
      [] OTHER -> 0

\* C2: for every bundle the findings appear in the order doc-validation-info-admin,
\* sicaf-detailed | sicaf-missing, cnpj-match, tr-definitive, value-check-gross,
\* contract-date, rmm-check-detailed | rmm-check, nd-consistency, whichever rules
\* emit nothing.
C2_FixedEmissionOrder ==
    Evaluated =>
        /\ \A i \in 1..Len(Results) : RuleRank(Results[i].id) > 0
        /\ \A i, j \in 1..Len(Results) :
            i < j => RuleRank(Results[i].id) < RuleRank(Results[j].id)

\* All eight rules emitted, and a run in which rules in the middle emitted nothing.
C2_Witness ==
    /\ Returned
    /\ Len(Results) = 8

\* C3: no input bundle makes runAuditRules throw, and a defect met by one rule
\* does not keep the expense-nature rule from producing its finding.
C3_RuleIsolation ==
    Evaluated =>
        /\ ~Val(ret).threw
        /\ ~NdConsistency(arg).threw =>
              \A k \in 1..Len(NdConsistency(arg).out) :
                  HasId(NdConsistency(arg).out[k].id)

\* C10: exactly one of rmm-check-detailed / rmm-check is emitted when the invoice
\* is found and is material or service-only, none otherwise; material with a stock
\* entry gives rmm-check-detailed, material without one gives rmm-check PASS when
\* the note is found, substitutes the stock entry and is not a wrong document, and
\* FAIL otherwise; service-only gives rmm-check PASS.
C10_StockEntryBranch ==
    Evaluated =>
        LET nf == arg.notaFiscal
            detailed == CountId("rmm-check-detailed")
            plain == CountId("rmm-check")
        IN  /\ detailed + plain =
                  IF nf.found /\ (nf.isMaterial \/ nf.isService) THEN 1 ELSE 0
            /\ (nf.found /\ nf.isMaterial /\ arg.rmm.found) => detailed = 1
            /\ (nf.found /\ nf.isMaterial /\ ~arg.rmm.found) =>
                  /\ plain = 1
                  /\ FindingOf("rmm-check").status =
                        IF /\ arg.informacaoAdministrativa.found
                           /\ arg.informacaoAdministrativa.substitutesRmm
                           /\ ~arg.informacaoAdministrativa.wrongDocumentDetected
                        THEN PASS ELSE FAIL
            /\ (nf.found /\ ~nf.isMaterial /\ nf.isService) =>
                  /\ plain = 1
                  /\ FindingOf("rmm-check").status = PASS

(***************************************************************************)
(* More input sets.                                                        *)
(***************************************************************************)
OptDates == {None, Some(D1), Some(D2), Some(D3)}

SicafBundles ==
    { [EmptyBundle EXCEPT
          !.sicaf = Sicaf(sicafFound, None,
                          [federal_pgfn |-> a, fgts |-> b, trabalhista |-> c,
                           estadual_distrital |-> d, municipal |-> e]),
          !.termoRecebimento = Termo(trFound, None, sig, TRUE, None, None, None)] :
        sicafFound \in BOOLEAN, trFound \in BOOLEAN, sig \in {None, Some(D2)},
        a \in OptDates, b \in OptDates, c \in OptDates, d \in OptDates, e \in OptDates }

SpecSicaf == InitRules(SicafBundles, {0}) /\ [][NextRules]_vars

OptValues == {None} \cup {Some(v) : v \in 0..MaxValue}

ValueBundles ==
    { [EmptyBundle EXCEPT
          !.termoRecebimento = Termo(trFound, None, None, TRUE, None, None, total),
          !.notaFiscal = Nota(nfFound, None, Some(<<>>), gross, liquid,
                              FALSE, TRUE, Some(<<>>))] :
        trFound \in BOOLEAN, nfFound \in BOOLEAN,
        gross \in OptValues, liquid \in OptValues, total \in OptValues }

SpecValue == InitRules(ValueBundles, {0}) /\ [][NextRules]_vars

OptCnpjs == {None} \cup {Some(c) : c \in StringsUpTo({"1", "2", "."}, MaxCnpjLen)}

CnpjBundles ==
    { [EmptyBundle EXCEPT !.sicaf.cnpj = sicafCnpj,
                          !.termoRecebimento.cnpj = trCnpj,
                          !.notaFiscal.cnpj = nfCnpj] :
        sicafCnpj \in OptCnpjs, trCnpj \in OptCnpjs, nfCnpj \in OptCnpjs }

SpecCnpj == InitRules(CnpjBundles, {0}) /\ [][NextRules]_vars

ContractBundles ==
    { [EmptyBundle EXCEPT
          !.termoRecebimento = Termo(trFound, None, None, TRUE, bulletin, year, None)] :
        trFound \in BOOLEAN, bulletin \in OptDates,
        year \in {None, Some(0), Some(2023), Some(2024), Some(2025)} }

SpecContract == InitRules(ContractBundles, TimeZones) /\ [][NextRules]_vars

(***************************************************************************)
(* Claims about single rules.                                              *)
(***************************************************************************)
\* C1: the findings depend on nothing but the bundle: evaluating the same bundle
\* again, on whichever host, gives the same list.
C1_DependsOnlyOnBundle ==
    Evaluated => \A zone \in TimeZones : runAuditRules(arg, zone) = Val(ret)

\* C5: with invoice and receipt found and gross and total present, exactly one
\* value-check-gross is emitted: PASS iff |gross - total| < 0.05, else FAIL iff
\* liquid is present and |liquid - total| < 0.05, else WARNING; without the
\* precondition none is emitted.
C5_ValueReconciliation ==
    Evaluated =>
        LET nf == arg.notaFiscal
            tr == arg.termoRecebimento
            pre == nf.found /\ tr.found /\ nf.grossValue # None /\ tr.totalValue # None
            dist(a, b) == IF a < b THEN b - a ELSE a - b
        IN  IF pre
            THEN /\ CountId("value-check-gross") = 1
                 /\ FindingOf("value-check-gross").status =
                       IF dist(nf.grossValue[1], tr.totalValue[1]) < 5 THEN PASS
                       ELSE IF /\ nf.liquidValue # None
                               /\ dist(nf.liquidValue[1], tr.totalValue[1]) < 5
                            THEN FAIL
                       ELSE WARNING
            ELSE CountId("value-check-gross") = 0

\* C6: every result holds exactly one of sicaf-detailed / sicaf-missing; it is
\* sicaf-detailed iff certificate found, receipt found and signature date present;
\* sicaf-missing is a WARNING without sub-findings.
C6_CertificateGating ==
    Evaluated =>
        /\ CountId("sicaf-detailed") + CountId("sicaf-missing") = 1
        /\ HasId("sicaf-detailed") <=>
              /\ arg.sicaf.found
              /\ arg.termoRecebimento.found
              /\ arg.termoRecebimento.signatureDate # None
        /\ HasId("sicaf-missing") =>
              /\ FindingOf("sicaf-missing").status = WARNING
              /\ FindingOf("sicaf-missing").subItems = None

\* Certificate and receipt found, signature date missing: degraded to the WARNING.
C6_Witness ==
    /\ Returned
    /\ arg.sicaf.found
    /\ arg.termoRecebimento.found
    /\ arg.termoRecebimento.signatureDate = None
    /\ HasId("sicaf-missing")

\* a strictly before b, on the calendar.
DateBefore(a, b) ==
    \/ a.y < b.y
    \/ a.y = b.y /\ a.m < b.m
    \/ a.y = b.y /\ a.m = b.m /\ a.d < b.d

\* C7: sicaf-detailed carries the 5 sub-findings Receita Federal e PGFN, FGTS,
\* Trabalhista, Estadual/Distrital, Municipal in that order; sub-finding k is FAIL
\* iff certificate k's date is absent or strictly before the signature date, else
\* PASS; the finding is FAIL iff some sub-finding is FAIL, else PASS.
C7_CertificateSubFindings ==
    (Evaluated /\ HasId("sicaf-detailed")) =>
        LET f == FindingOf("sicaf-detailed")
            subs == f.subItems[1]
            sig == arg.termoRecebimento.signatureDate[1]
            dates == <<arg.sicaf.validityDates.federal_pgfn,
                       arg.sicaf.validityDates.fgts,
                       arg.sicaf.validityDates.trabalhista,
                       arg.sicaf.validityDates.estadual_distrital,
                       arg.sicaf.validityDates.municipal>>
            bad == {k \in 1..5 : dates[k] = None \/ DateBefore(dates[k][1], sig)}
        IN  /\ Len(subs) = 5
            /\ [k \in 1..5 |-> subs[k].label.text] =
                  <<"Receita Federal e PGFN", "FGTS", "Trabalhista",
                    "Estadual/Distrital", "Municipal">>
            /\ \A k \in 1..5 : subs[k].status = IF k \in bad THEN FAIL ELSE PASS
            /\ f.status = IF bad # {} THEN FAIL ELSE PASS
            /\ Cardinality({k \in 1..5 : subs[k].status = FAIL}) = Cardinality(bad)

\* One certificate expiring on the signature day (PASS), one expired, one absent.
C7_Witness ==
    /\ Returned
    /\ HasId("sicaf-detailed")
    /\ arg.sicaf.validityDates.fgts = arg.termoRecebimento.signatureDate
    /\ arg.sicaf.validityDates.trabalhista = Some(D1)
    /\ arg.sicaf.validityDates.municipal = None
    /\ FindingOf("sicaf-detailed").subItems[1][2].status = PASS
    /\ FindingOf("sicaf-detailed").subItems[1][3].status = FAIL
    /\ FindingOf("sicaf-detailed").status = FAIL

\* The digits of an identifier, in order.
RECURSIVE DigitsOnly(_)
DigitsOnly(s) ==
    IF s = <<>> THEN <<>>
    ELSE IF Head(s) \in Digits THEN <<Head(s)>> \o DigitsOnly(Tail(s))
    ELSE DigitsOnly(Tail(s))

\* The identifiers of invoice, receipt and certificate that are present.
AvailableCnpjs ==
    {o[1] : o \in {c \in {arg.notaFiscal.cnpj, arg.termoRecebimento.cnpj, arg.sicaf.cnpj} :
                      c # None /\ c # Some(<<>>)}}

CnpjStatusIs(status) ==
    HasId("cnpj-match") /\ FindingOf("cnpj-match").status = status

\* C8: cnpj-match is FAIL iff the available identifiers, stripped of non-digits,
\* give more than one value, PASS iff exactly one, and is not emitted when none is
\* available; identifiers differing only in punctuation never give FAIL.
C8_IdentifierConsistency ==
    Evaluated =>
        LET normalized == {DigitsOnly(c) : c \in AvailableCnpjs}
        IN  /\ CountId("cnpj-match") <= 1
            /\ CnpjStatusIs(FAIL) <=> Cardinality(normalized) > 1
            /\ CnpjStatusIs(PASS) <=> Cardinality(normalized) = 1
            /\ ~HasId("cnpj-match") <=> AvailableCnpjs = {}
            /\ (\A u, v \in AvailableCnpjs : DigitsOnly(u) = DigitsOnly(v)) =>
                  ~CnpjStatusIs(FAIL)

\* Two identifiers written differently with the same digits: PASS.
C8_Witness ==
    /\ Returned
    /\ arg.notaFiscal.cnpj = Some(<<"1", ".">>)
    /\ arg.termoRecebimento.cnpj = Some(<<".", "1">>)
    /\ arg.sicaf.cnpj = None
    /\ CnpjStatusIs(PASS)

\* C9: only non-empty normalized identifiers enter the comparison: an identifier
\* without any digit neither causes a FAIL against a real one nor a PASS alone.
C9_OnlyNonEmptyNormalized ==
    Evaluated =>
        LET normalized == {DigitsOnly(c) : c \in AvailableCnpjs} \ {<<>>}
        IN  /\ CnpjStatusIs(FAIL) <=> Cardinality(normalized) > 1
            /\ CnpjStatusIs(PASS) <=> Cardinality(normalized) = 1
            /\ ~HasId("cnpj-match") <=> normalized = {}

(***************************************************************************)
(* Claims about handleAnalyze.                                             *)
(***************************************************************************)
\* C4: when analyzeDocuments rejects or returns unparsable output, handleAnalyze
\* ends with the error set, auditResults empty, extractedData not set by the call
\* and runAuditRules not invoked.
C4_ExtractionFailureTerminal ==
    [][ (call = "awaiting" /\ call' = "idle" /\ last' \in FailureReasons) =>
            /\ error'
            /\ auditResults' = <<>>
            /\ extractedData' = extractedData
            /\ evaluations' = evaluations
            /\ ~isAnalyzing' ]_vars

\* A call that ended on unparsable output, the error showing.
C4_Witness ==
    /\ last = "unparsable"
    /\ call = "idle"
    /\ error
    /\ auditResults = <<>>
    /\ extractedData = None

(***************************************************************************)
(* Input sets for the stock-entry rule.  Quantities are whole numbers (in  *)
(* units of 0.005: 200 is 1), which doubles add and subtract exactly.      *)
(***************************************************************************)
MaxItems == 2

Cane == <<"c", "a", "n", "e">>
Bead == <<"b", "e", "a", "d">>
BeadRed == <<"b", "e", "a", "d", " ", "r", "e", "d">>
BeadRedX == <<"b", "e", "a", "d", " ", "r", "e", "d", " ", "x">>
CaneUpperX == <<"C", "a", "n", "e", " ", "x">>
PN1 == <<"P", "N", "1">>
PN2 == <<"P", "N", "2">>
PN9 == <<"P", "N", "9">>
ShortPN == <<"A", "B">>

\* Invoice items: keyed by part number; without a part number (null, empty); with
\* a part number too short to be the key; with a null description.
NfPool ==
    { LineItem(Some(Cane), Some(PN1), 400),
      LineItem(Some(BeadRed), None, 400),
      LineItem(Some(BeadRed), Some(<<>>), 400),
      LineItem(Some(Bead), Some(PN2), 600),
      LineItem(Some(Cane), Some(ShortPN), 400),
      LineItem(None, Some(PN1), 400) }

\* Stock-entry items: the same keys with equal and with different quantities, and
\* items under other keys whose descriptions contain words of the invoice items.
RmmPool ==
    { LineItem(Some(Cane), Some(PN1), 400),
      LineItem(Some(CaneUpperX), Some(PN9), 600),
      LineItem(Some(BeadRedX), None, 400),
      LineItem(Some(Bead), Some(PN2), 400) }

\* All sequences over S of length lo..hi.
SeqsOf(S, lo, hi) == UNION {[1..n -> S] : n \in lo..hi}

ItemBundles ==
    { [EmptyBundle EXCEPT
          !.notaFiscal = Nota(TRUE, None, Some(<<>>), None, None, TRUE, FALSE,
                              Some(nfItems)),
          !.rmm = Rmm(TRUE, rmmItems)] :
        nfItems \in SeqsOf(NfPool, 1, MaxItems),
        rmmItems \in {None} \cup {Some(s) : s \in SeqsOf(RmmPool, 0, MaxItems)} }

SpecItems == InitRules(ItemBundles, {0}) /\ [][NextRules]_vars

\* aggregateItems applied to the invoice's item list on its own.
Aggregate ==
    /\ ret = None
    /\ arg.notaFiscal.items # None
    /\ ret' = Some(aggregateItems(Val(arg.notaFiscal.items)))
    /\ last' = "aggregate"
    /\ UNCHANGED <<files, isAnalyzing, extractedData, auditResults, error, call, tz,
                   arg, evaluations>>

NextItems == Evaluate \/ Aggregate

MaxAggItems == 3

CaneUpper == <<"C", "a", "n", "e">>
PN1Dashed == <<"p", "n", "-", "1">>
\* Two descriptions of 31 letters and digits that agree on the first 30.
Long30 == <<"a", "b", "c", "d", "e", "n", "p", "r", "x", "0",
            "a", "b", "c", "d", "e", "n", "p", "r", "x", "1",
            "a", "b", "c", "d", "e", "n", "p", "r", "x", "2">>
Long1 == Append(Long30, "1")
Long2 == Append(Long30, "2")

\* Items sharing a key through part numbers written differently, through a part
\* number too short to be the key, through descriptions in different case and
\* through descriptions that differ after the 30th character; and a null description.
AggPool ==
    { LineItem(Some(Cane), Some(PN1), 600),
      LineItem(Some(BeadRed), Some(PN1Dashed), 400),
      LineItem(Some(Cane), Some(ShortPN), 200),
      LineItem(Some(CaneUpper), None, 400),
      LineItem(Some(Long1), None, 200),
      LineItem(Some(Long2), None, 400),
      LineItem(None, Some(PN1), 200) }

\* The stock entry lists the same items as the invoice, or nothing.
AggregateBundles ==
    { [EmptyBundle EXCEPT
          !.notaFiscal = Nota(TRUE, None, Some(<<>>), None, None, TRUE, FALSE,
                              Some(nfItems)),
          !.rmm = Rmm(TRUE, Some(IF same THEN nfItems ELSE <<>>))] :
        nfItems \in SeqsOf(AggPool, 0, MaxAggItems), same \in BOOLEAN }

SpecAggregate == InitRules(AggregateBundles, {0}) /\ [][NextItems]_vars

(***************************************************************************)
(* Claims about the stock-entry rule.  The groups of a line-item list are  *)
(* restated here from the items, without the aggregated map.               *)
(***************************************************************************)
NfItems == IF arg.notaFiscal.items = None THEN <<>> ELSE arg.notaFiscal.items[1]
StockItems == IF arg.rmm.items = None THEN <<>> ELSE arg.rmm.items[1]

\* Branch A with invoice items.
BranchA ==
    /\ arg.notaFiscal.found
    /\ arg.notaFiscal.isMaterial
    /\ arg.rmm.found
    /\ Len(NfItems) > 0

\* Lower-cased letters and digits of a text, in order; nothing for an absent text.
RECURSIVE AlnumLower(_)
AlnumLower(s) ==
    IF s = <<>> THEN <<>>
    ELSE IF Head(s) \in Digits \cup LowerLetters
         THEN <<Head(s)>> \o AlnumLower(Tail(s))
    ELSE IF Head(s) \in UpperLetters
         THEN <<ToLowerChar(Head(s))>> \o AlnumLower(Tail(s))
    ELSE AlnumLower(Tail(s))

TextOf(o) == IF o = None THEN <<>> ELSE o[1]

\* The grouping key of an item, as documented.
KeyOf(item) ==
    IF Len(TextOf(item.partNumber)) > 2
    THEN AlnumLower(TextOf(item.partNumber))
    ELSE LET d == AlnumLower(TextOf(item.description))
         IN  IF Len(d) > 30 THEN SubSeq(d, 1, 30) ELSE d

\* The positions at which a key occurs for the first time, in increasing order.
FirstPositions(items) ==
    LET S == {i \in 1..Len(items) :
                \A j \in 1..(i - 1) : KeyOf(items[j]) # KeyOf(items[i])}
    IN  [k \in 1..Cardinality(S) |->
            CHOOSE i \in S : Cardinality({j \in S : j < i}) = k - 1]

KeysInOrder(items) ==
    [k \in 1..Len(FirstPositions(items)) |-> KeyOf(items[FirstPositions(items)[k]])]

RECURSIVE QtyOfKey(_, _)
QtyOfKey(items, key) ==
    IF items = <<>> THEN 0
    ELSE (IF KeyOf(Head(items)) = key THEN Head(items).quantity ELSE 0)
         + QtyOfKey(Tail(items), key)

Severity(status) ==
    CASE status = PASS -> 0 [] status = WARNING -> 1 [] status = FAIL -> 2 [] OTHER -> 3

\* The sub-findings of rmm-check-detailed (none when the list is absent).
DetailedSubs ==
    IF FindingOf("rmm-check-detailed").subItems = None THEN <<>>
    ELSE FindingOf("rmm-check-detailed").subItems[1]

\* C11: in Branch A with invoice items, rmm-check-detailed has one sub-finding per
\* invoice group: PASS when it reports a match whose quantities differ by less than
\* 0.01, WARNING when it reports a match with a larger difference, FAIL when it
\* reports no match; a group whose key is a stock-entry key is matched, a group is
\* unmatched when the stock entry has no items; the finding's status is the highest
\* of the sub-finding statuses under PASS < WARNING < FAIL, whatever their order.
C11_GroupOutcomeAndFold ==
    (Evaluated /\ BranchA) =>
        /\ HasId("rmm-check-detailed")
        /\ LET keys == KeysInOrder(NfItems)
               subs == DetailedSubs
               top == FindingOf("rmm-check-detailed").status
           IN  /\ Len(subs) = Len(keys)
               /\ \A k \in 1..Len(subs) :
                    LET d == subs[k].details
                        nfQty == QtyOfKey(NfItems, keys[k])
                    IN  /\ subs[k].status \in {PASS, WARNING, FAIL}
                        /\ subs[k].status = FAIL <=> d = <<"not-found">>
                        /\ subs[k].status # FAIL =>
                             /\ Len(d) = 3
                             /\ d[2] = nfQty
                             /\ subs[k].status = PASS <=>
                                   (d[2] - d[3] < 2 /\ d[3] - d[2] < 2)
                        /\ (\E j \in 1..Len(StockItems) : KeyOf(StockItems[j]) = keys[k]) =>
                             /\ subs[k].status # FAIL
                             /\ d[3] = QtyOfKey(StockItems, keys[k])
                        /\ StockItems = <<>> => subs[k].status = FAIL
               /\ \A k \in 1..Len(subs) : Severity(subs[k].status) <= Severity(top)
               /\ \E k \in 1..Len(subs) : subs[k].status = top

\* The outcome recorded in ret is that of aggregateItems / of runAuditRules.
Aggregated == ret # None /\ last = "aggregate"
RulesRan == ret # None /\ last = "none"

RECURSIVE SumQty(_)
SumQty(items) ==
    IF items = <<>> THEN 0 ELSE Head(items).quantity + SumQty(Tail(items))

RECURSIVE SumTotals(_)
SumTotals(groups) ==
    IF groups = <<>> THEN 0 ELSE Head(groups).totalQty + SumTotals(Tail(groups))

\* The first of the longest descriptions among the items with this key.
LongestDesc(items, key) ==
    LET S == {i \in 1..Len(items) : KeyOf(items[i]) = key}
        len(i) == Len(TextOf(items[i].description))
        best == CHOOSE i \in S :
                    /\ \A j \in S : len(j) <= len(i)
                    /\ \A j \in S : len(j) = len(i) => i <= j
    IN  TextOf(items[best].description)

\* C12: aggregateItems partitions the list by key (normalized part number when it
\* is present and longer than 2 characters, else the normalized description cut to
\* 30 characters); each group's quantity is the sum over exactly the items with the
\* key, the groups' quantities add up to the items' quantities, the groups are in
\* order of first occurrence, and rmm-check-detailed has one sub-finding per
\* distinct invoice key in that order.
C12_AggregationPartition ==
    /\ Aggregated =>
          /\ ~Val(ret).threw
          /\ LET groups == Val(ret).out
             IN  /\ [k \in 1..Len(groups) |-> groups[k].key] = KeysInOrder(NfItems)
                 /\ \A k \in 1..Len(groups) :
                       /\ groups[k].totalQty = QtyOfKey(NfItems, groups[k].key)
                       /\ groups[k].originalCount =
                             Cardinality({i \in 1..Len(NfItems) :
                                             KeyOf(NfItems[i]) = groups[k].key})
                 /\ SumTotals(groups) = SumQty(NfItems)
    /\ (RulesRan /\ BranchA) =>
          /\ HasId("rmm-check-detailed")
          /\ LET keys == KeysInOrder(NfItems)
             IN  /\ Len(DetailedSubs) = Len(keys)
                 /\ \A k \in 1..Len(keys) :
                       LET first == NfItems[FirstPositions(NfItems)[k]]
                           shown == LongestDesc(NfItems, keys[k])
                       IN  DetailedSubs[k].label.item =
                              <<IF Len(TextOf(first.partNumber)) > 0
                                THEN TextOf(first.partNumber) ELSE <<"S", "/", "N">>,
                                IF Len(shown) > 30 THEN SubSeq(shown, 1, 30) ELSE shown>>

HasStockKey(key) == \E j \in 1..Len(StockItems) : KeyOf(StockItems[j]) = key

\* C13: an invoice group whose key is also a stock-entry key is matched to the
\* stock-entry group of that key: its sub-finding quotes that group's total
\* quantity, whatever other stock-entry groups share words with its description
\* and wherever they stand in the list.
C13_ExactKeyFirst ==
    (Evaluated /\ HasId("rmm-check-detailed")) =>
        \A k \in 1..Len(KeysInOrder(NfItems)) :
            HasStockKey(KeysInOrder(NfItems)[k]) =>
                /\ DetailedSubs[k].status # FAIL
                /\ DetailedSubs[k].details[3] =
                      QtyOfKey(StockItems, KeysInOrder(NfItems)[k])

\* Invoice item "cane" PN1; the stock entry lists "Cane x" under PN9 with another
\* quantity first, PN1 second: the sub-finding is the PASS of the PN1 group.
C13_Witness ==
    /\ Returned
    /\ NfItems = <<LineItem(Some(Cane), Some(PN1), 400)>>
    /\ StockItems = <<LineItem(Some(CaneUpperX), Some(PN9), 600),
                      LineItem(Some(Cane), Some(PN1), 400)>>
    /\ HasId("rmm-check-detailed")
    /\ DetailedSubs[1].status = PASS
    /\ DetailedSubs[1].details = <<"qty-equal", 400, 400>>

\* The words of a description longer than 3 characters, lower-cased.
LongWords(description) ==
    {w \in {split(toLowerCase(description))[i] :
                i \in 1..Len(split(toLowerCase(description)))} : Len(w) > 3}

\* The stock-entry groups (by position in group order) whose lower-cased
\* description contains a long word of the k-th invoice group's description.
FuzzyCandidates(k) ==
    LET words == LongWords(LongestDesc(NfItems, KeysInOrder(NfItems)[k]))
        stockKeys == KeysInOrder(StockItems)
    IN  {j \in 1..Len(stockKeys) :
            \E w \in words :
                includes(toLowerCase(LongestDesc(StockItems, stockKeys[j])), w)}

\* The part number recorded for the k-th invoice group: its first item's.
GroupPartNumber(k) == TextOf(NfItems[FirstPositions(NfItems)[k]].partNumber)

\* The k-th sub-finding is the outcome of the fallback over `candidates`: matched
\* to the first of them, FAIL when there is none.
FallbackOutcome(k, candidates) ==
    IF candidates = {}
    THEN DetailedSubs[k].status = FAIL
    ELSE LET j == CHOOSE c \in candidates : \A o \in candidates : c <= o
         IN  /\ DetailedSubs[k].status # FAIL
             /\ DetailedSubs[k].details[3] =
                   QtyOfKey(StockItems, KeysInOrder(StockItems)[j])

\* C14 as stated: every invoice group whose key is absent from the stock-entry
\* map, with or without a part number, is matched to the first stock-entry group
\* whose description contains one of its long words, and is FAIL only if none does.
C14_FallbackForEveryGroup ==
    (Evaluated /\ HasId("rmm-check-detailed")) =>
        \A k \in 1..Len(KeysInOrder(NfItems)) :
            ~HasStockKey(KeysInOrder(NfItems)[k]) =>
                FallbackOutcome(k, FuzzyCandidates(k))

\* C14 amended: the fallback is attempted for the groups whose key is absent and
\* whose part number is neither null nor empty; a group without a part number
\* whose key is absent is FAIL whatever the stock-entry descriptions.
C14_FallbackForPartNumberGroups ==
    (Evaluated /\ HasId("rmm-check-detailed")) =>
        \A k \in 1..Len(KeysInOrder(NfItems)) :
            ~HasStockKey(KeysInOrder(NfItems)[k]) =>
                FallbackOutcome(k, IF Len(GroupPartNumber(k)) > 0
                                   THEN FuzzyCandidates(k) ELSE {})

\* "bead red" without part number and "bead" under PN2 against a stock entry that
\* lists only "bead red x": the first is not found, the second is matched by the
\* word "bead" and differs in quantity.
C14_Witness ==
    /\ Returned
    /\ NfItems = <<LineItem(Some(BeadRed), None, 400),
                   LineItem(Some(Bead), Some(PN2), 600)>>
    /\ StockItems = <<LineItem(Some(BeadRedX), None, 400)>>
    /\ FuzzyCandidates(1) = {1}
    /\ DetailedSubs[1].status = FAIL
    /\ DetailedSubs[2].status = WARNING
    /\ DetailedSubs[2].details = <<"qty-diverge", 600, 400>>

(***************************************************************************)
(* Input set for the administrative note: all four flags of the note, the  *)
(* invoice's flags, the kinds of stock entry and of billing report.        *)
(***************************************************************************)
\* Beyond FaturaKinds: a list with a material commitment before a service one, an
\* empty list, and service commitments in a report that was not found.
NoteFaturaKinds == FaturaKinds \cup {"mixed", "empty", "unfound-service"}

NoteFatura(kind) ==
    CASE kind = "mixed" ->
            Fatura(TRUE, None, Some(<<Empenho(<<"3", "3", "9", "0", "3", "0">>),
                                      Empenho(ServiceND)>>))
      [] kind = "empty" -> Fatura(TRUE, None, Some(<<>>))
      [] kind = "unfound-service" -> Fatura(FALSE, None, Some(<<Empenho(ServiceND)>>))
      [] OTHER -> FlagFatura(kind)

NoteBundles ==
    { [EmptyBundle EXCEPT
          !.notaFiscal = Nota(nfFound, None, Some(<<>>), None, None,
                              isMaterial, isService, FlagNfItems(rmmKind)),
          !.relatorioFatura = NoteFatura(faturaKind),
          !.rmm = Rmm(rmmKind # "none", Some(<<GoodItem>>)),
          !.informacaoAdministrativa =
              InfoAdmin(iaFound, substitutesRmm, justifiesServiceND, wrongDoc)] :
        nfFound \in BOOLEAN, isMaterial \in BOOLEAN, isService \in BOOLEAN,
        rmmKind \in RmmKinds, faturaKind \in NoteFaturaKinds,
        iaFound \in BOOLEAN, substitutesRmm \in BOOLEAN,
        justifiesServiceND \in BOOLEAN, wrongDoc \in BOOLEAN }

SpecNote == InitRules(NoteBundles, {0}) /\ [][NextRules]_vars

(***************************************************************************)
(* Claims about the administrative note and the expense-nature rule.       *)
(***************************************************************************)
\* C15: when wrongDocumentDetected is true the note justifies nothing: a material
\* invoice without a stock entry gets rmm-check FAIL, and nd-consistency, when
\* emitted, is WARNING, whatever found, substitutesRmm and justifiesServiceND are.
C15_WrongDocumentRechecked ==
    (Evaluated /\ arg.informacaoAdministrativa.wrongDocumentDetected) =>
        /\ (arg.notaFiscal.found /\ arg.notaFiscal.isMaterial /\ ~arg.rmm.found) =>
              /\ CountId("rmm-check") = 1
              /\ FindingOf("rmm-check").status = FAIL
        /\ HasId("nd-consistency") => FindingOf("nd-consistency").status = WARNING

\* A note that is found and carries both justifying flags, but is a wrong document.
C15_Witness ==
    /\ Returned
    /\ arg.informacaoAdministrativa =
          [found |-> TRUE, substitutesRmm |-> TRUE, justifiesServiceND |-> TRUE,
           wrongDocumentDetected |-> TRUE]
    /\ arg.notaFiscal.found /\ arg.notaFiscal.isMaterial /\ ~arg.rmm.found
    /\ HasId("rmm-check") /\ FindingOf("rmm-check").status = FAIL
    /\ HasId("nd-consistency") /\ FindingOf("nd-consistency").status = WARNING

\* C16: nd-consistency is emitted iff the billing report is found, has at least one
\* commitment, one of them carries the service code, and the invoice is flagged
\* material; it is PASS iff the note is found and is not a wrong document, with or
\* without justifiesServiceND, WARNING otherwise, and never FAIL.
C16_ExpenseNatureRule ==
    Evaluated =>
        LET rf == arg.relatorioFatura
            list == IF rf.empenhos = None THEN <<>> ELSE rf.empenhos[1]
            due == /\ rf.found
                   /\ Len(list) > 0
                   /\ \E i \in 1..Len(list) : includes(list[i].nd, ServiceND)
                   /\ arg.notaFiscal.isMaterial
        IN  /\ CountId("nd-consistency") = IF due THEN 1 ELSE 0
            /\ due => FindingOf("nd-consistency").status =
                          IF /\ arg.informacaoAdministrativa.found
                             /\ ~arg.informacaoAdministrativa.wrongDocumentDetected
                          THEN PASS ELSE WARNING

(***************************************************************************)
(* The CNPJ failsafe on its own: applied to a bundle, then to its result.  *)
(***************************************************************************)
MaxPasses == 2

Prepass ==
    /\ evaluations < MaxPasses
    /\ ret' = Some(CnpjFailsafe(IF ret = None THEN arg ELSE Val(ret)))
    /\ evaluations' = evaluations + 1
    /\ last' = "prepass"
    /\ UNCHANGED <<files, isAnalyzing, extractedData, auditResults, error, call, tz,
                   arg>>

NextPrepass == Prepass

\* Identifiers: null, empty, without digits, and the digits 1 and 2 with and
\* without punctuation.
PrepassCnpjs ==
    {None, Some(<<>>), Some(<<".">>), Some(<<"1">>), Some(<<"2">>),
     Some(<<"1", ".">>), Some(<<".", "2">>)}

\* possibleCnpjs: missing, or up to two values.
PrepassCandidates ==
    {None} \cup {Some(s) : s \in SeqsOf({<<>>, <<".">>, <<"1", ".">>, <<"2">>}, 0, 2)}

PrepassBundles ==
    { [EmptyBundle EXCEPT !.termoRecebimento.found = trFound,
                          !.termoRecebimento.cnpj = trCnpj,
                          !.notaFiscal.found = nfFound,
                          !.notaFiscal.cnpj = nfCnpj,
                          !.notaFiscal.possibleCnpjs = possible] :
        trFound \in BOOLEAN, nfFound \in BOOLEAN,
        trCnpj \in PrepassCnpjs, nfCnpj \in PrepassCnpjs,
        possible \in PrepassCandidates }

SpecPrepass == InitRules(PrepassBundles, {0}) /\ [][NextPrepass]_vars

(***************************************************************************)
(* Claims about the identifier auto-correction pre-pass.                   *)
(***************************************************************************)
PossibleIds ==
    IF arg.notaFiscal.possibleCnpjs = None THEN <<>> ELSE arg.notaFiscal.possibleCnpjs[1]

\* The positions of possibleCnpjs whose digits are the receipt identifier's.
MatchingIds ==
    {i \in 1..Len(PossibleIds) :
        DigitsOnly(PossibleIds[i]) = DigitsOnly(TextOf(arg.termoRecebimento.cnpj))}

\* C17: with invoice and receipt found, a receipt identifier present, normalized
\* identifiers that differ and a value in possibleCnpjs with the receipt's digits,
\* the pre-pass replaces the invoice's identifier by the first such value, and the
\* normalized identifiers are then equal; otherwise the identifier is as it was.
C17_PrepassReplacesIdentifier ==
    (last = "prepass" /\ evaluations = 1) =>
        LET tr == arg.termoRecebimento
            nf == arg.notaFiscal
            applies == /\ nf.found /\ tr.found
                       /\ Len(TextOf(tr.cnpj)) > 0
                       /\ DigitsOnly(TextOf(nf.cnpj)) # DigitsOnly(TextOf(tr.cnpj))
                       /\ MatchingIds # {}
            first == CHOOSE i \in MatchingIds : \A j \in MatchingIds : i <= j
        IN  IF applies
            THEN /\ Val(ret).notaFiscal.cnpj = <<PossibleIds[first]>>
                 /\ DigitsOnly(TextOf(Val(ret).notaFiscal.cnpj)) =
                       DigitsOnly(TextOf(tr.cnpj))
            ELSE Val(ret).notaFiscal.cnpj = nf.cnpj

\* C18: the pre-pass applied to its own result changes nothing: twice is once.
C18_PrepassIdempotent ==
    (last = "prepass" /\ evaluations = 2) => Val(ret) = CnpjFailsafe(arg)

\* A bundle the first application corrected ("2" replaced by "1."), after the second.
C18_Witness ==
    /\ last = "prepass" /\ evaluations = 2
    /\ arg.notaFiscal.found /\ arg.termoRecebimento.found
    /\ arg.termoRecebimento.cnpj = Some(<<"1">>)
    /\ arg.notaFiscal.cnpj = Some(<<"2">>)
    /\ PossibleIds = <<<<"2">>, <<"1", ".">>>>
    /\ Val(ret).notaFiscal.cnpj = Some(<<"1", ".">>)

SicafKinds == {"missing", "valid", "expired"}

StatusSicaf(kind) ==
    Sicaf(kind # "missing", None,
          [NoDates EXCEPT !["federal_pgfn"] = Some(D3),
                          !["fgts"] = Some(D2),
                          !["trabalhista"] = IF kind = "expired" THEN Some(D1) ELSE Some(D3),
                          !["estadual_distrital"] = Some(D3),
                          !["municipal"] = Some(D3)])

\* Receipt of 0.10 with identifier "1", signed on D2, bulletin of D1 (2023); the
\* invoice's gross value matches it, its liquid value does, or neither.
StatusBundles ==
    { Bundle(StatusSicaf(sicafKind),
             Termo(TRUE, Some(<<"1">>), Some(D2), isDefinitive, Some(D1),
                   Some(startYear), Some(10)),
             Nota(TRUE, Some(nfCnpj), Some(<<>>), Some(gross), Some(liquid),
                  isMaterial, TRUE, FlagNfItems(rmmKind)),
             FlagFatura(faturaKind),
             Rmm(rmmKind # "none", Some(<<GoodItem>>)),
             InfoAdmin(iaFound, substitutesRmm, FALSE, wrongDoc)) :
        sicafKind \in SicafKinds, isDefinitive \in BOOLEAN,
        startYear \in {2023, 2024}, nfCnpj \in {<<"1">>, <<"2">>},
        gross \in {10, 30}, liquid \in {10, 50}, isMaterial \in BOOLEAN,
        rmmKind \in {"none", "items", "no-nf-items"},
        faturaKind \in {"none", "service"},
        iaFound \in BOOLEAN, substitutesRmm \in BOOLEAN, wrongDoc \in BOOLEAN }

SpecStatus == InitRules(StatusBundles, {0}) /\ [][NextRules]_vars

\* C20: in every result list no finding with status PASS carries a recommendation.
C20_NoRecommendationOnPass ==
    Evaluated =>
        \A i \in 1..Len(Results) :
            Results[i].status = PASS => ~Results[i].recommendation

\* Six rules passing without a recommendation next to a failing rule with one.
C20_Witness ==
    /\ Returned
    /\ \A id \in {"sicaf-detailed", "cnpj-match", "tr-definitive", "value-check-gross",
                  "rmm-check-detailed", "nd-consistency"} :
          /\ HasId(id)
          /\ FindingOf(id).status = PASS
          /\ ~FindingOf(id).recommendation
    /\ HasId("contract-date")
    /\ FindingOf("contract-date").status = FAIL
    /\ FindingOf("contract-date").recommendation

(***************************************************************************)
(* Claims about the document-type guard.                                   *)
(***************************************************************************)
\* C21: doc-validation-info-admin is emitted iff wrongDocumentDetected is true;
\* when emitted it is FAIL, carries a recommendation, has no sub-findings and is
\* the first finding of the list.
C21_DocumentTypeGuard ==
    Evaluated =>
        LET wrong == arg.informacaoAdministrativa.wrongDocumentDetected
        IN  /\ CountId("doc-validation-info-admin") = IF wrong THEN 1 ELSE 0
            /\ wrong =>
                  /\ Results[1].id = "doc-validation-info-admin"
                  /\ Results[1].status = FAIL
                  /\ Results[1].recommendation
                  /\ Results[1].subItems = None

\* A wrong document reported ahead of seven more findings, no note having been
\* recognised at all.
C21_Witness ==
    /\ Returned
    /\ arg.informacaoAdministrativa.wrongDocumentDetected
    /\ ~arg.informacaoAdministrativa.found
    /\ Len(Results) = 8
    /\ Results[1].id = "doc-validation-info-admin"
    /\ Results[2].id = "sicaf-detailed"

(***************************************************************************)
(* Claims about the contract-year rule and the receipt acceptance rule.    *)
(***************************************************************************)
\* C22: contract-date is emitted iff the receipt is found, bulletinDate and
\* contractStartYear are both present and the year of bulletinDate is below
\* contractStartYear; when emitted it is FAIL, never PASS or WARNING.
C22_ContractYearRule ==
    Evaluated =>
        LET tr == arg.termoRecebimento
            due == /\ tr.found
                   /\ tr.bulletinDate # None
                   /\ tr.contractStartYear # None
                   /\ tr.bulletinDate[1].y < tr.contractStartYear[1]
        IN  /\ CountId("contract-date") = IF due THEN 1 ELSE 0
            /\ \A i \in 1..Len(Results) :
                  Results[i].id = "contract-date" => Results[i].status = FAIL

\* The receipt's two flags set freely on every bundle of the note's input set, in
\* which the invoice, the stock entry, the billing report and the note vary.
ReceiptBundles ==
    { [b EXCEPT !.termoRecebimento.found = trFound,
                !.termoRecebimento.isDefinitive = isDefinitive] :
        b \in NoteBundles, trFound \in BOOLEAN, isDefinitive \in BOOLEAN }

SpecReceipt == InitRules(ReceiptBundles, {0}) /\ [][NextRules]_vars

NoItemsBundles ==
    { [EmptyBundle EXCEPT
          !.notaFiscal = Nota(nfFound, None, Some(<<>>), None, None,
                              isMaterial, isService, nfItems),
          !.rmm = Rmm(rmmFound, rmmItems)] :
        nfFound \in BOOLEAN, isMaterial \in BOOLEAN, isService \in BOOLEAN,
        rmmFound \in BOOLEAN,
        nfItems \in {None, Some(<<>>), Some(<<GoodItem>>)},
        rmmItems \in {None} \cup
            {Some(s) : s \in SeqsOf(RmmPool \cup {NullDescItem}, 0, MaxItems)} }

SpecNoItems == InitRules(NoItemsBundles, {0}) /\ [][NextRules]_vars

\* C24: with the invoice found and material, a stock entry found and the invoice's
\* item list empty or missing, rmm-check-detailed is emitted with status WARNING
\* and without sub-findings, whatever the stock entry's item list contains.
C24_EmptyItemListDegrades ==
    (/\ Evaluated
     /\ arg.notaFiscal.found /\ arg.notaFiscal.isMaterial /\ arg.rmm.found
     /\ arg.notaFiscal.items \in {None, Some(<<>>)}) =>
        /\ CountId("rmm-check-detailed") = 1
        /\ FindingOf("rmm-check-detailed").status = WARNING
        /\ FindingOf("rmm-check-detailed").subItems = None

\* The item list missing, against a stock entry with an item whose description is
\* null: the stock entry's list is not aggregated and the rule does not throw.
C24_Witness ==
    /\ Returned
    /\ arg.notaFiscal.found /\ arg.notaFiscal.isMaterial /\ arg.rmm.found
    /\ arg.notaFiscal.items = None
    /\ arg.rmm.items # None
    /\ \E i \in 1..Len(arg.rmm.items[1]) : arg.rmm.items[1][i].description = None
    /\ HasId("rmm-check-detailed")
    /\ FindingOf("rmm-check-detailed").status = WARNING
    /\ FindingOf("rmm-check-detailed").subItems = None

(***************************************************************************)
(* Claims about every result list.                                         *)
(***************************************************************************)
\* C25: no two findings of a result list have the same id.
C25_UniqueIds ==
    Evaluated =>
        \A i, j \in 1..Len(Results) : Results[i].id = Results[j].id => i = j

\* All eight rules emitted a finding, the identifier rule the divergence.
C25_Witness ==
    /\ Returned
    /\ Cardinality({Results[i].id : i \in 1..Len(Results)}) = 8
    /\ FindingOf("cnpj-match").status = FAIL

\* Certificates with dates missing, expired and valid, next to a material invoice
\* whose groups are matched, diverge in quantity or are not in the stock entry.
PendingBundles ==
    { Bundle(Sicaf(sicafFound, None,
                   [NoDates EXCEPT !["federal_pgfn"] = a, !["fgts"] = b,
                                   !["trabalhista"] = c,
                                   !["estadual_distrital"] = Some(D3),
                                   !["municipal"] = Some(D3)]),
             Termo(trFound, None, sig, TRUE, None, None, None),
             Nota(TRUE, None, Some(<<>>), None, None, TRUE, FALSE, Some(nfItems)),
             Fatura(FALSE, None, Some(<<>>)),
             Rmm(TRUE, Some(<<LineItem(Some(Cane), Some(PN1), 400),
                              LineItem(Some(Bead), Some(PN2), 400)>>)),
             InfoAdmin(FALSE, FALSE, FALSE, FALSE)) :
        sicafFound \in BOOLEAN, trFound \in BOOLEAN, sig \in {None, Some(D2)},
        a \in {None, Some(D1), Some(D3)}, b \in {None, Some(D1), Some(D3)},
        c \in {None, Some(D1), Some(D3)},
        nfItems \in { <<LineItem(Some(Cane), Some(PN1), 400)>>,
                      <<LineItem(Some(BeadRed), None, 400)>>,
                      <<LineItem(Some(Bead), Some(PN2), 600)>>,
                      <<LineItem(Some(BeadRed), None, 400),
                        LineItem(Some(Bead), Some(PN2), 600)>> } }

SpecPending == InitRules(PendingBundles, {0}) /\ [][NextRules]_vars

\* C26: no finding and no sub-finding has status PENDING: every status in a
\* result list is PASS, WARNING or FAIL.
C26_NoPendingOutput ==
    Evaluated =>
        \A i \in 1..Len(Results) :
            /\ Results[i].status \in {PASS, WARNING, FAIL}
            /\ Results[i].subItems # None =>
                  \A k \in 1..Len(Results[i].subItems[1]) :
                      Results[i].subItems[1][k].status \in {PASS, WARNING, FAIL}

\* A certificate without a date reported FAIL, next to an invoice group that is
\* not in the stock entry and one whose quantity diverges.
C26_Witness ==
    /\ Returned
    /\ arg.sicaf.validityDates["fgts"] = None
    /\ HasId("sicaf-detailed")
    /\ FindingOf("sicaf-detailed").subItems[1][2].status = FAIL
    /\ FindingOf("sicaf-detailed").subItems[1][2].details = <<"date-not-found">>
    /\ HasId("rmm-check-detailed")
    /\ Len(FindingOf("rmm-check-detailed").subItems[1]) = 2
    /\ FindingOf("rmm-check-detailed").subItems[1][1].status = FAIL
    /\ FindingOf("rmm-check-detailed").subItems[1][2].status = WARNING

(***************************************************************************)
(* Claims about reset, the busy state and the error message.               *)
(***************************************************************************)
\* C27: when reset is invoked while a handleAnalyze call awaits the extractor, the
\* later completion of that call sets neither extractedData nor auditResults.
C27_ResetDiscardsInFlight ==
    [][ (call = "awaiting" /\ last = "reset" /\ call' = "idle") =>
            /\ extractedData' = None
            /\ auditResults' = <<>> ]_vars

\* C28: every handleAnalyze call that set isAnalyzing sets it back to false, however
\* the call ends (the extractor resolves, the extractor fails, the pre-pass or the
\* rules throw): isAnalyzing is false whenever no call awaits the extractor, and a
\* busy state always comes to an end.
C28_BusyStateEnds ==
    /\ [](call = "idle" => ~isAnalyzing)
    /\ (isAnalyzing ~> ~isAnalyzing)

\* A call whose rule evaluation threw, ended with the busy state cleared.
C28_Witness ==
    /\ call = "idle"
    /\ last = "threw"
    /\ Val(ret).threw
    /\ error
    /\ ~isAnalyzing

\* C29: whenever a handleAnalyze call ends with the error set, extractedData is
\* null and auditResults is empty, so the upload view, which alone renders the
\* error message, is the one shown.
C29_ErrorImpliesNoData ==
    [][ (call = "awaiting" /\ call' = "idle" /\ error') =>
            /\ extractedData' = None
            /\ auditResults' = <<>> ]_vars

(***************************************************************************)
(* The findings put on display: what handleAnalyze does with the list that *)
(* runAuditRules returned for the bundle, on the value rule's input set.   *)
(***************************************************************************)
\* setExtractedData(data) ... setAuditResults(results), then the render.
Display ==
    /\ Returned
    /\ extractedData = None
    /\ extractedData' = Some(arg)
    /\ auditResults' = Results
    /\ last' = "displayed"
    /\ UNCHANGED <<files, isAnalyzing, error, call, tz, arg, ret, evaluations>>

NextDisplay == Evaluate \/ Display

SpecSidebar == InitRules(ValueBundles, {0}) /\ [][NextDisplay]_vars

\* C30: whenever a value-check-gross finding is on display, the sidebar's flag
\* isTrMismatch is true exactly when that finding's status is not PASS.
C30_SidebarAgreesWithFinding ==
    (/\ last = "displayed"
     /\ \E i \in 1..Len(auditResults) : auditResults[i].id = "value-check-gross") =>
        LET i == CHOOSE k \in 1..Len(auditResults) :
                     auditResults[k].id = "value-check-gross"
            sidebar == isTrMismatch(extractedData)
        IN  /\ ~sidebar.threw
            /\ sidebar.out <=> auditResults[i].status # PASS

====
